---- MODULE Spec2Model ----
(***************************************************************************)
(* Trip planning engine of the Automated Global Tour Planner backend:      *)
(* CountrySelector (knapsack / greedy selection), TourOptimizer (nearest   *)
(* neighbour + 2-opt routing, day distribution), BudgetService (cost and   *)
(* budget enforcement) and the generate_itinerary route that composes them.*)
(*                                                                         *)
(* Conventions.                                                            *)
(*  - countries_data (a Python dict, iterated in insertion order) is a     *)
(*    sequence of records; every service operator takes it as its first    *)
(*    parameter `data` (the `self.countries_data` of the service).         *)
(*  - Money is integral in the modelled catalogs and requests.  The one    *)
(*    non-integral amount, working_budget = budget * 0.9 - max_return_cost,*)
(*    is carried in tenths (the parameter names end in 10).                *)
(*  - Distances are the haversine kilometres of the modelled coordinates,  *)
(*    rounded to whole km (table HaversineKm).  Two routes over the same   *)
(*    closed tour in opposite directions have the same exact length, but   *)
(*    the float sums of _route_total_distance are taken in opposite order  *)
(*    and may differ in the last bit: the outcome of `new_distance <       *)
(*    best_distance` between two routes of equal exact length is a choice  *)
(*    the model leaves open and remembers (fp_memo), so that the same      *)
(*    comparison always has the same outcome.                              *)
(*  - The optimizer's distance cache is passed to and returned by every    *)
(*    operator that reads distances (record field `cache`), in the order   *)
(*    the code queries it.                                                 *)
(*  - Python lists are objects of a heap (a sequence of lists; a reference  *)
(*    is an index).  A Router method takes the heap and the reference of   *)
(*    its list argument and returns the heap it leaves and the reference   *)
(*    of the list it returns; every statement that creates a list adds an  *)
(*    object and every statement that changes a list in place writes to    *)
(*    the object its name refers to.  The variable `heap` holds the        *)
(*    objects of the running call of enforce_budget or of a Router method  *)
(*    called directly; object CallerList is the list the caller passed.    *)
(*  - Variables marked "history" record what the code did (removals, loop  *)
(*    bodies, reversals applied by 2-opt, requests served); no action      *)
(*    reads them to decide anything.                                       *)
(***************************************************************************)
EXTENDS Integers, Sequences, FiniteSets, TLC

VARIABLES
    countries_data,     \* the catalog loaded by load_countries()
    request,            \* the arguments of the call being served
    pc,                 \* position in the handler / loop
    selected,           \* generate_itinerary: `selected`
    initial_selected,   \* history: what the Selector returned
    route,              \* `route`
    days_distribution,  \* `days_distribution`
    total_cost,         \* `total_cost` of the last cost evaluation
    warnings,           \* `warnings`
    working,            \* enforce_budget: `working`, a reference into heap (0 before
                        \* line 88 binds it)
    removed,            \* history: destinations removed by enforce_budget, in order
    iterations,         \* history: loop bodies of enforce_budget run so far
    enforce_ret,        \* what enforce_budget returned
    response,           \* what the call returned
    fp_memo,            \* outcomes of float comparisons between equal-length routes
    _distance_cache,    \* optimizer._distance_cache of the module-level TourOptimizer
    served,             \* history: the requests served before this one, with outcomes
    heap,               \* the list objects of the call of enforce_budget (or of a
                        \* Router method called directly), in order of creation
    two_opt             \* history: the last run of two_opt_improve (its input, the
                        \* reversals it applied, the passes of its while loop)

vars == <<countries_data, request, pc, selected, initial_selected, route,
          days_distribution, total_cost, warnings, working, removed,
          iterations, enforce_ret, response, fp_memo, _distance_cache, served,
          heap, two_opt>>

-----------------------------------------------------------------------------
(* Program constants *)

MIN_DAYS_PER_COUNTRY == 2
TSP_2OPT_MAX_ITERATIONS == 100
\* BUDGET_SAFETY_MARGIN = 0.9, in tenths
BUDGET_SAFETY_MARGIN_TENTHS == 9
\* granularity = 10 ($10 steps of the knapsack table)
granularity == 10
\* `if len(candidates) <= 50`
KNAPSACK_MAX_CANDIDATES == 50

-----------------------------------------------------------------------------
(* Bounds of the model *)

\* destinations of a catalog besides the home country
MaxDest == 3
\* request.num_countries ranges over 1..MaxNum
MaxNum == 3
\* request.budget ranges over 17 * (1..MaxBudgetSteps)
MaxBudgetSteps == 4
\* days beyond num_countries * 2 in a request
MaxExtraDays == 2
\* destinations passed to a direct call of solve_tsp
MaxStops == 4
\* days beyond interior_count * 2 passed to a direct call of distribute_days
MaxAllocExtra == 3

-----------------------------------------------------------------------------
(* Generic helpers (Python built-ins) *)

Range(s) == {s[i] : i \in DOMAIN s}

Max(a, b) == IF a >= b THEN a ELSE b

\* sum(...) over a sequence of numbers
SumSeq(s) ==
    LET RECURSIVE upto(_)
        upto(k) == IF k = 0 THEN 0 ELSE upto(k - 1) + s[k]
    IN  upto(Len(s))

\* max(...) over a non-empty sequence of numbers
MaxSeq(s) == CHOOSE m \in Range(s) : \A x \in Range(s) : x <= m

\* the sequence with the elements f[1], ..., f[n] of a function on 1..n
Tuple(f) == <<>> \o f

\* s[::-1]
Reverse(s) == [i \in 1..Len(s) |-> s[Len(s) + 1 - i]]

\* list.remove(x): drops the first occurrence of x
ListRemove(s, x) ==
    LET k == CHOOSE i \in 1..Len(s) : s[i] = x /\ \A j \in 1..(i - 1) : s[j] # x
    IN  SubSeq(s, 1, k - 1) \o SubSeq(s, k + 1, Len(s))

\* route[1:-1]
Interior(r) == IF Len(r) <= 2 THEN <<>> ELSE SubSeq(r, 2, Len(r) - 1)

\* int(a / b) for a >= 0, b > 0
IntDiv(a, b) == a \div b

-----------------------------------------------------------------------------
(* Python list objects *)

\* the list a method was given by its caller is the first object of the heap
\* the call runs on
CallerList == 1

\* the reference of the next list object created
NewRef(h) == Len(h) + 1

\* a list display, comprehension, slice or concatenation creates a list object
HeapNew(h, value) == Append(h, value)

\* ref.append(x) changes the object in place
HeapAppend(h, ref, x) == [h EXCEPT ![ref] = Append(@, x)]

\* ref.remove(x) changes the object in place
HeapRemove(h, ref, x) == [h EXCEPT ![ref] = ListRemove(@, x)]

-----------------------------------------------------------------------------
(* Catalog access *)

Keys(data) == [i \in 1..Len(data) |-> data[i].country]

\* self.countries_data[country]
Lookup(data, country) ==
    data[CHOOSE i \in 1..Len(data) : data[i].country = country]

\* len(set(data["interests"]) & interests)
interest_score(data, country, interests) ==
    Cardinality(Lookup(data, country).interests \cap interests)

\* avg_travel_cost + avg_accommodation_cost * MIN_DAYS_PER_COUNTRY
minimum_cost(data, country) ==
    Lookup(data, country).avg_travel_cost
        + Lookup(data, country).avg_accommodation_cost * MIN_DAYS_PER_COUNTRY

-----------------------------------------------------------------------------
(* CountrySelector (services/country_selector.py) *)

\* the whole catalog as candidates, without the filter of lines 60-63
CandidatesUnfiltered(data, interests, home_country) ==
    Tuple([k \in 1..Len(data) |->
             [country  |-> data[k].country,
              score    |-> interest_score(data, data[k].country, interests),
              min_cost |-> minimum_cost(data, data[k].country)]])

\* lines 58-68: catalog entries other than home with at least one matching
\* interest, in catalog order
Candidates(data, interests, home_country) ==
    LET matching == { i \in 1..Len(data) :
                        /\ data[i].country # home_country
                        /\ interest_score(data, data[i].country, interests) > 0 }
        at(k) == CHOOSE i \in matching : Cardinality({ j \in matching : j <= i }) = k
    IN  Tuple([k \in 1..Cardinality(matching) |->
                 [country  |-> data[at(k)].country,
                  score    |-> interest_score(data, data[at(k)].country, interests),
                  min_cost |-> minimum_cost(data, data[at(k)].country)]])

\* A row dp[i] of the table is the sequence of its cells for w = 0..W, each
\* [score, count, chosen]: dp[i][w] is row[w + 1]
Cell(row, w) == row[w + 1]

\* an item taken without the test `prev_count < max_items`
KnapsackTakeUncapped(prev, cand, w, max_items) ==
    LET cost_units == IntDiv(cand.min_cost, granularity)
    IN  /\ cost_units <= w
        /\ Cell(prev, w - cost_units).score + cand.score > Cell(prev, w).score

\* lines 127-135: item `cand` is taken at capacity w on top of row `prev`
KnapsackTake(prev, cand, w, max_items) ==
    LET cost_units == IntDiv(cand.min_cost, granularity)
    IN  /\ cost_units <= w
        /\ Cell(prev, w - cost_units).count < max_items
        /\ Cell(prev, w - cost_units).score + cand.score > Cell(prev, w).score

\* lines 123-135: dp[i][w] and chosen[i][w] from row dp[i-1]
KnapsackCell(prev, cand, w, max_items) ==
    LET cost_units == IntDiv(cand.min_cost, granularity)
    IN  IF KnapsackTake(prev, cand, w, max_items)
        THEN [score  |-> Cell(prev, w - cost_units).score + cand.score,
              count  |-> Cell(prev, w - cost_units).count + 1,
              chosen |-> TRUE]
        ELSE [score  |-> Cell(prev, w).score,
              count  |-> Cell(prev, w).count,
              chosen |-> FALSE]

\* lines 121-135: row dp[i] from row dp[i-1]
KnapsackRow(prev, cand, W, max_items) ==
    Tuple([k \in 1..(W + 1) |-> KnapsackCell(prev, cand, k - 1, max_items)])

\* line 114: dp[0]
KnapsackRow0(W) ==
    Tuple([k \in 1..(W + 1) |-> [score |-> 0, count |-> 0, chosen |-> FALSE]])

\* lines 117-135: the table; element i+1 of the result is row dp[i].  The loop
\* over i is walked in two halves, the second from the rows the first leaves
KnapsackTable(candidates, W, max_items) ==
    LET RECURSIVE fill(_, _, _)
        fill(rows, lo, hi) ==
            IF lo > hi THEN rows
            ELSE IF lo = hi
            THEN Append(rows, KnapsackRow(rows[lo], candidates[lo], W, max_items))
            ELSE CHOOSE out \in
                     { fill(half, ((lo + hi) \div 2) + 1, hi) :
                       half \in { fill(rows, lo, (lo + hi) \div 2) } } : TRUE
    IN  fill(<<KnapsackRow0(W)>>, 1, Len(candidates))

\* a backtrack that stays in column W: it never subtracts the cost of an item
\* it takes
KnapsackBacktrackSameColumn(table, candidates, W) ==
    LET n == Len(candidates)
        taken == { i \in 1..n : Cell(table[i + 1], W).chosen }
        at(k) == CHOOSE i \in taken : Cardinality({ j \in taken : j >= i }) = k
    IN  Tuple([k \in 1..Cardinality(taken) |-> candidates[at(k)].country])

\* lines 138-144: backtrack from (n, W); step k looks at item i = n + 1 - k.
\* The loop is walked in two halves, as in KnapsackTable
KnapsackBacktrack(table, candidates, W) ==
    LET n == Len(candidates)
        RECURSIVE back(_, _, _)
        back(st, lo, hi) ==
            IF lo > hi THEN st
            ELSE IF lo = hi
            THEN LET i == n + 1 - lo
                 IN  IF Cell(table[i + 1], st.w).chosen
                     THEN [selected |-> Append(st.selected, candidates[i].country),
                           w |-> st.w - IntDiv(candidates[i].min_cost, granularity)]
                     ELSE st
            ELSE CHOOSE out \in
                     { back(half, ((lo + hi) \div 2) + 1, hi) :
                       half \in { back(st, lo, (lo + hi) \div 2) } } : TRUE
    IN  back([selected |-> <<>>, w |-> W], 1, n).selected

\* _knapsack_select; budget10 is `budget` in tenths, so W = int(budget / 10)
_knapsack_select(candidates, budget10, max_items) ==
    LET W == budget10 \div (granularity * 10)
    IN  IF W <= 0 THEN <<>>
        ELSE CHOOSE sel \in { KnapsackBacktrack(table, candidates, W) :
                              table \in { KnapsackTable(candidates, W, max_items) } } : TRUE

\* line 161: sort key (-score, min_cost / score); x sorts strictly before y
GreedyBefore(x, y) ==
    \/ x.score > y.score
    \/ x.score = y.score /\ x.min_cost * y.score < y.min_cost * x.score

\* sorted(candidates, key=...): stable, so element i comes after the elements
\* that sort strictly before it and the earlier elements of equal key
GreedySorted(candidates) ==
    LET n == Len(candidates)
        ahead(i) == {j \in 1..n :
                        \/ GreedyBefore(candidates[j], candidates[i])
                        \/ j < i /\ ~GreedyBefore(candidates[i], candidates[j])}
        at(k) == CHOOSE i \in 1..n : Cardinality(ahead(i)) = k - 1
    IN  Tuple([k \in 1..n |-> candidates[at(k)]])

\* lines 167-172: one candidate of the loop; after the `break` nothing changes
GreedyTake(st, c, budget10, max_items) ==
    IF Len(st.selected) >= max_items THEN st
    ELSE IF (st.total_cost + c.min_cost) * 10 <= budget10
         THEN [st EXCEPT !.selected   = Append(st.selected, c.country),
                         !.total_cost = st.total_cost + c.min_cost]
         ELSE st

\* _greedy_select; budget10 is `budget` in tenths.  The loop is walked in two
\* halves, as in KnapsackTable
_greedy_select(candidates, budget10, max_items) ==
    LET RECURSIVE loop(_, _, _)
        loop(st, lo, hi) ==
            IF lo > hi THEN st
            ELSE IF lo = hi
            THEN GreedyTake(st, st.sorted_candidates[lo], budget10, max_items)
            ELSE CHOOSE out \in
                     { loop(half, ((lo + hi) \div 2) + 1, hi) :
                       half \in { loop(st, lo, (lo + hi) \div 2) } } : TRUE
    IN  loop([selected |-> <<>>, total_cost |-> 0,
              sorted_candidates |-> GreedySorted(candidates)],
             1, Len(candidates)).selected

\* lines 75-78: max avg_travel_cost over the whole catalog
max_return_cost(data) == MaxSeq([i \in 1..Len(data) |-> data[i].avg_travel_cost])

\* lines 74-79: budget * BUDGET_SAFETY_MARGIN - max_return_cost, in tenths
working_budget10(data, budget) ==
    budget * BUDGET_SAFETY_MARGIN_TENTHS - max_return_cost(data) * 10

\* lines 70-90: select_countries once the candidate list is built
SelectFrom(data, candidates, num_countries, budget) ==
    IF candidates = <<>> THEN <<>>
    ELSE IF working_budget10(data, budget) <= 0 THEN <<>>
    ELSE IF Len(candidates) <= KNAPSACK_MAX_CANDIDATES
         THEN _knapsack_select(candidates, working_budget10(data, budget), num_countries)
         ELSE _greedy_select(candidates, working_budget10(data, budget), num_countries)

\* select_countries
select_countries(data, interests, num_countries, home_country, budget) ==
    CHOOSE sel \in { SelectFrom(data, candidates, num_countries, budget) :
                     candidates \in { Candidates(data, interests, home_country) } } : TRUE

-----------------------------------------------------------------------------
(* TourOptimizer (services/optimizer.py) *)

\* The coordinates [latitude, longitude] of the modelled catalogs
Places == << <<0, 0>>, <<10, 20>>, <<10, -20>>, <<35, 140>>, <<-34, 151>>, <<52, -1>> >>

\* haversine_distance between Places[i] and Places[j], in whole kilometres
HaversineKm ==
    << <<    0,  2476,  2476, 14329, 15176,  5783>>,
       << 2476,     0,  4377, 11974, 14372,  5042>>,
       << 2476,  4377,     0, 14587, 17193,  4977>>,
       <<14329, 11974, 14587,     0,  7757,  9625>>,
       <<15176, 14372, 17193,  7757,     0, 17017>>,
       << 5783,  5042,  4977,  9625, 17017,     0>> >>

\* haversine_distance, tabulated on Places
haversine_distance(coord1, coord2) ==
    LET idx(c) == CHOOSE k \in 1..Len(Places) : Places[k] = c
    IN  HaversineKm[idx(coord1)][idx(coord2)]

\* self._distance_cache = {}: a function from pairs <<country_a, country_b>>
\* to kilometres
EmptyCache == [k \in {} |-> 0]

\* self._distance_cache[key] = dist
CachePut(cache, key, dist) ==
    [k \in DOMAIN cache \cup {key} |-> IF k = key THEN dist ELSE cache[k]]

\* a get_distance whose cache hits return one kilometre less than was stored
get_distance_hit_drift(data, cache, country_a, country_b) ==
    LET key == <<country_a, country_b>>
        reverse_key == <<country_b, country_a>>
        dist == haversine_distance(Lookup(data, country_a).coordinates,
                                   Lookup(data, country_b).coordinates)
    IN  IF key \in DOMAIN cache THEN [dist |-> cache[key] - 1, cache |-> cache]
        ELSE IF reverse_key \in DOMAIN cache
        THEN [dist |-> cache[reverse_key] - 1, cache |-> cache]
        ELSE [dist |-> dist, cache |-> CachePut(cache, key, dist)]

\* get_distance: [dist, cache], the distance returned and the cache left
get_distance(data, cache, country_a, country_b) ==
    LET key == <<country_a, country_b>>
        reverse_key == <<country_b, country_a>>
        dist == haversine_distance(Lookup(data, country_a).coordinates,
                                   Lookup(data, country_b).coordinates)
    IN  IF key \in DOMAIN cache THEN [dist |-> cache[key], cache |-> cache]
        ELSE IF reverse_key \in DOMAIN cache
        THEN [dist |-> cache[reverse_key], cache |-> cache]
        ELSE [dist |-> dist, cache |-> CachePut(cache, key, dist)]

\* _route_total_distance: [dist, cache]
_route_total_distance(data, cache, r) ==
    LET RECURSIVE walk(_, _)
        walk(i, acc) ==
            IF i > Len(r) - 1 THEN acc
            ELSE LET g == get_distance(data, acc.cache, r[i], r[i + 1])
                 IN  walk(i + 1, [dist |-> acc.dist + g.dist, cache |-> g.cache])
    IN  walk(1, [dist |-> 0, cache |-> cache])

\* line 98: min(to_visit, key=lambda x: self.get_distance(current, x)) calls
\* the key once per element, in list order, and returns the first element of
\* least distance: [nearest, cache]
Nearest(data, cache, to_visit, current) ==
    LET RECURSIVE keys(_, _)
        keys(k, acc) ==
            IF k > Len(to_visit) THEN acc
            ELSE LET g == get_distance(data, acc.cache, current, to_visit[k])
                 IN  keys(k + 1, [d |-> Append(acc.d, g.dist), cache |-> g.cache])
        ks == keys(1, [d |-> <<>>, cache |-> cache])
        k0 == CHOOSE k \in 1..Len(to_visit) :
                  /\ \A m \in 1..Len(to_visit) : ks.d[k] <= ks.d[m]
                  /\ \A m \in 1..(k - 1) : ks.d[m] > ks.d[k]
    IN  [nearest |-> to_visit[k0], cache |-> ks.cache]

\* nearest_neighbor_tsp with `to_visit = countries` at line 90: to_visit is
\* the caller's list, and to_visit.remove(nearest) empties it
nearest_neighbor_tsp_in_place(data, cache, h, countries, home) ==
    LET to_visit == countries
        new_route == NewRef(h)
        h2 == HeapNew(h, <<home>>)
        RECURSIVE while(_, _, _)
        while(hp, c, current) ==
            IF hp[to_visit] = <<>>
            THEN [route |-> new_route, cache |-> c, heap |-> HeapAppend(hp, new_route, home)]
            ELSE LET n == Nearest(data, c, hp[to_visit], current)
                 IN  while(HeapRemove(HeapAppend(hp, new_route, n.nearest),
                                      to_visit, n.nearest),
                           n.cache, n.nearest)
    IN  IF h[to_visit] = <<>>
        THEN [route |-> NewRef(h), cache |-> cache, heap |-> HeapNew(h, <<home, home>>)]
        ELSE while(h2, cache, home)

\* nearest_neighbor_tsp on heap h with `countries` the reference of the list
\* given: [route, cache, heap], the reference of the list returned, the cache
\* and the heap left.
nearest_neighbor_tsp(data, cache, h, countries, home) ==
    LET \* line 90: to_visit = [c for c in countries if c != home], a new list
        to_visit == NewRef(h)
        h1 == HeapNew(h, SelectSeq(h[countries], LAMBDA c : c # home))
        \* line 95: route = [home], a new list
        new_route == NewRef(h1)
        h2 == HeapNew(h1, <<home>>)
        \* lines 97-101: while to_visit
        RECURSIVE while(_, _, _)
        while(hp, c, current) ==
            IF hp[to_visit] = <<>>
            THEN \* line 103: route.append(home)
                 [route |-> new_route, cache |-> c, heap |-> HeapAppend(hp, new_route, home)]
            ELSE LET n == Nearest(data, c, hp[to_visit], current)
                 IN  \* lines 99-100: route.append(nearest); to_visit.remove(nearest)
                     while(HeapRemove(HeapAppend(hp, new_route, n.nearest),
                                      to_visit, n.nearest),
                           n.cache, n.nearest)
    IN  IF h1[to_visit] = <<>>
        THEN \* line 93: return [home, home], a new list
             [route |-> NewRef(h1), cache |-> cache,
              heap |-> HeapNew(h1, <<home, home>>)]
        ELSE while(h2, cache, home)

\* the list nearest_neighbor_tsp returns for a list with the elements of
\* `countries`, starting from an empty cache
NearestNeighborRoute(data, countries, home) ==
    LET run == nearest_neighbor_tsp(data, EmptyCache, <<countries>>, CallerList, home)
    IN  run.heap[run.route]

\* a reversal whose segment runs one element further, up to the last index
ReverseSegmentLong(r, p, q) ==
    SubSeq(r, 1, p - 1) \o Reverse(SubSeq(r, p, q + 1)) \o SubSeq(r, q + 2, Len(r))

\* line 130: best_route[:i] + best_route[i:j+1][::-1] + best_route[j+1:],
\* with p = i + 1 and q = j + 1 the 1-based ends of the reversed segment
ReverseSegment(r, p, q) ==
    SubSeq(r, 1, p - 1) \o Reverse(SubSeq(r, p, q)) \o SubSeq(r, q + 1, Len(r))

\* The float comparison new_distance < best_distance for two routes of equal
\* exact length: the possible outcomes given the outcomes seen so far
FloatLessOutcomes(memo, best, new) ==
    IF <<best, new>> \in memo.acc THEN {TRUE}
    ELSE IF <<best, new>> \in memo.rej \/ <<new, best>> \in memo.acc THEN {FALSE}
    ELSE {TRUE, FALSE}

FloatLessRecord(memo, best, new, out) ==
    IF out THEN [acc |-> memo.acc \cup {<<best, new>>},
                 rej |-> memo.rej \cup {<<new, best>>}]
    ELSE [acc |-> memo.acc, rej |-> memo.rej \cup {<<best, new>>}]

\* lines 134-136 as history: the reversal that replaced route `from` (of
\* distance best_distance) by route `to` (of distance new_distance)
Reversal(from, to, best_distance, new_distance) ==
    [from |-> from, to |-> to, best_distance |-> best_distance,
     new_distance |-> new_distance]

\* a 2-opt step that takes the candidate when it is longer, not shorter
TwoOptTryLonger(data, st, p, q) ==
    LET best == st.heap[st.best_route]
        new_route == NewRef(st.heap)
        h == HeapNew(st.heap, ReverseSegment(best, p, q))
        new_distance == _route_total_distance(data, st.cache, h[new_route])
        seen == [st EXCEPT !.cache = new_distance.cache, !.heap = h]
    IN  IF new_distance.dist > st.best_distance
        THEN {[seen EXCEPT !.best_route = new_route,
                           !.best_distance = new_distance.dist,
                           !.improved = TRUE,
                           !.applied = Append(st.applied,
                                              Reversal(best, h[new_route],
                                                       st.best_distance,
                                                       new_distance.dist))]}
        ELSE {seen}

\* lines 130-136: the candidate reversal (p, q) tried on state st; the set of
\* states [best_route, heap, best_distance, improved, memo, cache, applied] it
\* can leave.  best_route is a reference; line 130 creates the candidate as a
\* new list and line 134 binds best_route to it.
TwoOptTry(data, st, p, q) ==
    LET best == st.heap[st.best_route]
        new_route == NewRef(st.heap)
        h == HeapNew(st.heap, ReverseSegment(best, p, q))
        new_distance == _route_total_distance(data, st.cache, h[new_route])
        seen == [st EXCEPT !.cache = new_distance.cache, !.heap = h]
        taken == Append(st.applied, Reversal(best, h[new_route], st.best_distance,
                                             new_distance.dist))
    IN  IF new_distance.dist < st.best_distance
        THEN {[seen EXCEPT !.best_route = new_route,
                           !.best_distance = new_distance.dist,
                           !.improved = TRUE, !.applied = taken]}
        ELSE IF new_distance.dist = st.best_distance
        THEN { [seen EXCEPT
                   !.best_route = IF out THEN new_route ELSE st.best_route,
                   !.improved   = IF out THEN TRUE ELSE st.improved,
                   !.applied    = IF out THEN taken ELSE st.applied,
                   !.memo       = FloatLessRecord(st.memo, best, h[new_route], out)]
               : out \in FloatLessOutcomes(st.memo, best, h[new_route]) }
        ELSE {seen}

\* lines 128-136: one pass of the two for-loops from segment (p, q) on; the set
\* of states the pass can end in
RECURSIVE TwoOptScan(_, _, _, _)
TwoOptScan(data, st, p, q) ==
    LET len == Len(st.heap[st.best_route])
    IN  IF p > len - 2 THEN {st}
        ELSE UNION { TwoOptScan(data, s,
                                IF q < len - 1 THEN p ELSE p + 1,
                                IF q < len - 1 THEN q + 1 ELSE p + 2)
                     : s \in TwoOptTry(data, st, p, q) }

\* lines 123-138: the while loop from a state on, `iters` passes done, and the
\* return of best_route
RECURSIVE TwoOptWhile(_, _, _)
TwoOptWhile(data, st, iters) ==
    IF st.improved /\ iters < TSP_2OPT_MAX_ITERATIONS
    THEN UNION { TwoOptWhile(data, s, iters + 1) :
                 s \in TwoOptScan(data, [st EXCEPT !.improved = FALSE], 2, 3) }
    ELSE {[route |-> st.best_route, heap |-> st.heap, memo |-> st.memo,
           cache |-> st.cache, applied |-> st.applied, scans |-> iters]}

\* what a run of two_opt_improve leaves in the history
TwoOptRun(input, applied, scans) ==
    [input |-> input, applied |-> applied, scans |-> scans]

\* two_opt_improve on heap h with r the reference of the list given: the
\* set of [route, heap, memo, cache, run] it can return, route being the
\* reference of the list returned
two_opt_improve(data, cache, h, r, memo) ==
    IF Len(h[r]) <= 4
    THEN \* line 116: return route, the list that was given
         {[route |-> r, heap |-> h, memo |-> memo, cache |-> cache,
           run |-> TwoOptRun(h[r], <<>>, 0)]}
    ELSE LET \* line 118: best_route = route[:], a new list
             best_route == NewRef(h)
             h1 == HeapNew(h, h[r])
             best_distance == _route_total_distance(data, cache, h1[best_route])
         IN  { [route |-> x.route, heap |-> x.heap, memo |-> x.memo,
                cache |-> x.cache,
                run |-> TwoOptRun(h[r], x.applied, x.scans)] :
               x \in TwoOptWhile(data, [best_route |-> best_route, heap |-> h1,
                                        best_distance |-> best_distance.dist,
                                        improved |-> TRUE, memo |-> memo,
                                        cache |-> best_distance.cache,
                                        applied |-> <<>>], 0) }

\* solve_tsp on heap h with `countries` the reference of the list given: the
\* set of [route, heap, memo, cache, run] it can return
solve_tsp(data, cache, h, countries, home, memo) ==
    LET initial_route == nearest_neighbor_tsp(data, cache, h, countries, home)
    IN  two_opt_improve(data, initial_route.cache, initial_route.heap,
                        initial_route.route, memo)

\* a leftover order that serves the lowest score first
LeftoverBeforeLowest(scores, days, x, y) ==
    \/ scores[x] < scores[y]
    \/ scores[x] = scores[y] /\ days[x] < days[y]

\* line 217: sorted(countries, key=(score, -days), reverse=True); x sorts
\* strictly before y
LeftoverBefore(scores, days, x, y) ==
    \/ scores[x] > scores[y]
    \/ scores[x] = scores[y] /\ days[x] < days[y]

\* sorted(..., reverse=True) keeps the input order of equal keys
LeftoverSorted(countries, scores, days) ==
    LET n == Len(countries)
        ahead(i) == {j \in 1..n :
                        \/ LeftoverBefore(scores, days, countries[j], countries[i])
                        \/ j < i /\ ~LeftoverBefore(scores, days, countries[i], countries[j])}
        at(k) == CHOOSE i \in 1..n : Cardinality(ahead(i)) = k - 1
    IN  [k \in 1..n |-> countries[at(k)]]

\* an equal split without the minimum stay
EqualDaysNoFloor(countries, total_days) ==
    LET base_days == total_days \div Len(countries)
    IN  [c \in Range(countries) |-> base_days]

\* lines 198-199: no interest overlap, distribute equally
EqualDays(countries, total_days) ==
    LET base_days == total_days \div Len(countries)
    IN  [c \in Range(countries) |-> Max(base_days, MIN_DAYS_PER_COUNTRY)]

\* the weighted allocation without the leftover pass of lines 213-228
WeightedDaysNoLeftover(countries, scores, total_score, total_days) ==
    LET remaining_days == total_days - Len(countries) * MIN_DAYS_PER_COUNTRY
    IN  [c \in Range(countries) |->
            MIN_DAYS_PER_COUNTRY
              + (IF remaining_days > 0
                 THEN IntDiv(remaining_days * scores[c], total_score) ELSE 0)]

\* lines 202-228: minimum days, proportional share, leftover pass
WeightedDays(countries, scores, total_score, total_days) ==
    LET remaining_days == total_days - Len(countries) * MIN_DAYS_PER_COUNTRY
        additional(c) == IF total_score > 0 /\ remaining_days > 0
                         THEN IntDiv(remaining_days * scores[c], total_score)
                         ELSE 0
        days == [c \in Range(countries) |-> MIN_DAYS_PER_COUNTRY + additional(c)]
        distributed == SumSeq([i \in 1..Len(countries) |-> days[countries[i]]])
        leftover == total_days - distributed
        sorted_countries == LeftoverSorted(countries, scores, days)
        bonus == {sorted_countries[k] : k \in {m \in 1..Len(countries) : m <= leftover}}
    IN  [c \in Range(countries) |-> IF c \in bonus THEN days[c] + 1 ELSE days[c]]

\* distribute_days (interior destinations are distinct); the dict is a function
distribute_days(data, total_days, r, selected_interests) ==
    LET countries == Interior(r)
        scores == [c \in Range(countries) |-> interest_score(data, c, selected_interests)]
        total_score == SumSeq([i \in 1..Len(countries) |-> scores[countries[i]]])
    IN  IF countries = <<>> THEN <<>>
        ELSE IF total_score = 0 THEN EqualDays(countries, total_days)
        ELSE WeightedDays(countries, scores, total_score, total_days)

-----------------------------------------------------------------------------
(* BudgetService (services/budget.py) *)

\* days_distribution.get(country, MIN_DAYS_PER_COUNTRY)
DaysGet(dd, country) ==
    IF country \in DOMAIN dd THEN dd[country] ELSE MIN_DAYS_PER_COUNTRY

\* calculate_country_cost(...)["total"]
calculate_country_cost(data, country, days) ==
    Lookup(data, country).avg_travel_cost
        + Lookup(data, country).avg_accommodation_cost * days

\* a return flight charged from the first visited country
ReturnFlightFirst(data, r) ==
    IF Len(r) >= 2 THEN Lookup(data, r[2]).avg_travel_cost ELSE 0

\* lines 55-57: return flight from the last visited country
ReturnFlight(data, r) ==
    IF Len(r) >= 2 THEN Lookup(data, r[Len(r) - 1]).avg_travel_cost ELSE 0

\* calculate_total_cost
calculate_total_cost(data, r, dd) ==
    SumSeq([i \in 1..Len(Interior(r)) |->
                calculate_country_cost(data, Interior(r)[i], DaysGet(dd, Interior(r)[i]))])
        + ReturnFlight(data, r)

\* line 127: ratio = min_cost / interest_match, float("inf") when no match;
\* a ratio is [num, den], den = 0 standing for infinity
ValueRatio(data, country, interests) ==
    [num |-> minimum_cost(data, country),
     den |-> interest_score(data, country, interests)]

\* line 129: ratio > worst_ratio
RatioGreater(r1, r2) ==
    IF r1.den = 0 THEN r2.den # 0
    ELSE IF r2.den = 0 THEN FALSE
    ELSE r1.num * r2.den > r2.num * r1.den

\* the last-added destination instead of the worst-value one
LastAdded(data, countries, interests) == countries[Len(countries)]

\* _find_worst_value
_find_worst_value(data, countries, interests) ==
    LET RECURSIVE loop(_, _, _)
        loop(i, worst_country, worst_ratio) ==
            IF i > Len(countries) THEN worst_country
            ELSE LET ratio == ValueRatio(data, countries[i], interests)
                 IN  IF RatioGreater(ratio, worst_ratio)
                     THEN loop(i + 1, countries[i], ratio)
                     ELSE loop(i + 1, worst_country, worst_ratio)
    IN  loop(1, countries[1], [num |-> 0, den |-> 1])

-----------------------------------------------------------------------------
(* Values of the state *)

NoMemo == [acc |-> {}, rej |-> {}]

\* two_opt_improve has not run
NoRun == [input |-> <<>>, applied |-> <<>>, scans |-> 0]

NoReturn ==
    [returned |-> FALSE, countries |-> <<>>, warnings |-> <<>>, days |-> <<>>,
     same_object |-> FALSE]

NoResponse ==
    [status |-> 0, success |-> FALSE, stops |-> <<>>, route |-> <<>>,
     warnings |-> <<>>, total_cost |-> 0, tips |-> <<>>, detail |-> "none"]

\* f"Removed {worst} (cost: ${removed_cost:,.0f}) to stay within budget"
RemovedWarning(worst, removed_cost) ==
    [kind |-> "removed", country |-> worst, amount |-> removed_cost]

\* a warning of insufficiency that states the budget instead of the minimum needed
InsufficientWarningBudget(budget, needed) ==
    [kind |-> "insufficient", country |-> "none", amount |-> budget]

\* f"Budget ${budget:,.0f} is insufficient even for 1 country. Minimum needed: ..."
InsufficientWarning(budget, needed) ==
    [kind |-> "insufficient", country |-> "none", amount |-> needed]

\* "Budget too low for any matching countries"
NoMatchWarning == [kind |-> "no_match", country |-> "none", amount |-> 0]

-----------------------------------------------------------------------------
(* BudgetService.enforce_budget, one loop body per step *)

\* the list enforce_budget's `working` refers to
WorkingList == IF working = 0 THEN <<>> ELSE heap[working]

\* `working = countries` without the slice: working is the caller's list
EnforceEnterNoCopy(countries) ==
    LET frame == <<countries>>
    IN  /\ heap' = frame
        /\ working' = CallerList
        /\ warnings' = <<>>
        /\ removed' = <<>>
        /\ iterations' = 0
        /\ enforce_ret' = NoReturn

\* lines 87-88: the call of enforce_budget with a list of the caller's, which
\* is object CallerList of the call's heap; working = countries[:] is a new
\* list
EnforceEnter(countries) ==
    LET frame == <<countries>>
    IN  /\ heap' = HeapNew(frame, frame[CallerList])
        /\ working' = NewRef(frame)
        /\ warnings' = <<>>
        /\ removed' = <<>>
        /\ iterations' = 0
        /\ enforce_ret' = NoReturn

\* a return of enforce_budget that drops the warnings it collected
EnforceReturnSilent(h, ref, warns, days) ==
    /\ enforce_ret' = [returned |-> TRUE, countries |-> h[ref],
                       warnings |-> <<>>, days |-> days,
                       same_object |-> ref = CallerList]
    /\ heap' = h
    /\ warnings' = <<>>
    /\ pc' = IF request.call = "enforce_budget" THEN "done" ELSE "after_enforce"

\* return of enforce_budget to its caller with the list of reference ref of
\* heap h; same_object tells whether that list is the list object that was
\* passed in
EnforceReturn(h, ref, warns, days) ==
    /\ enforce_ret' = [returned |-> TRUE, countries |-> h[ref],
                       warnings |-> warns, days |-> days,
                       same_object |-> ref = CallerList]
    /\ heap' = h
    /\ warnings' = warns
    /\ pc' = IF request.call = "enforce_budget" THEN "done" ELSE "after_enforce"

\* a removal that drops the worst destination and the one after it
EnforceRemoveTwo(w, worst) == Tail(ListRemove(w, worst))

\* a removal that leaves the remaining destinations in the opposite order
EnforceRemoveReversed(w, worst) == Tuple(Reverse(ListRemove(w, worst)))

\* line 112: working.remove(worst)
EnforceRemove(w, worst) == ListRemove(w, worst)

\* a budget test that lets a tenth of the budget through
WithinBudgetLenient(cost, budget) == cost * 10 <= budget * 11

\* line 96: if total_cost <= budget
WithinBudget(cost, budget) == cost <= budget

\* a trip length one day longer than the minimum stays
EnforceTotalDaysLonger(w) == Len(w) * MIN_DAYS_PER_COUNTRY + 1

\* line 92: total_days = max(len(working) * MIN_DAYS_PER_COUNTRY, 1)
EnforceTotalDays(w) == Max(Len(w) * MIN_DAYS_PER_COUNTRY, 1)

\* lines 90-114: `while working:` and one body of it
EnforceStep ==
    /\ pc = "enforce"
    /\ UNCHANGED <<countries_data, served, request, selected, initial_selected,
                   response, working>>
    /\ IF heap[working] = <<>>
       THEN \* line 114: return working, warnings, {}
            /\ EnforceReturn(heap, working, warnings, <<>>)
            /\ UNCHANGED <<removed, iterations, route, days_distribution,
                           total_cost, fp_memo, _distance_cache, two_opt>>
       ELSE \E run \in solve_tsp(countries_data, _distance_cache, heap, working,
                                      request.home_country, fp_memo) :
            LET w == run.heap[working]
                days_total == EnforceTotalDays(w)
                days_dist == distribute_days(countries_data, days_total,
                                             run.heap[run.route], request.interests)
                cost == calculate_total_cost(countries_data, run.heap[run.route],
                                             days_dist)
            IN  /\ fp_memo' = run.memo
                /\ two_opt' = run.run
                /\ _distance_cache' = run.cache
                /\ route' = run.heap[run.route]
                /\ days_distribution' = days_dist
                /\ total_cost' = cost
                /\ iterations' = iterations + 1
                /\ IF WithinBudget(cost, request.budget)
                   THEN \* line 97: return working, warnings, days_dist
                        /\ EnforceReturn(run.heap, working, warnings, days_dist)
                        /\ UNCHANGED removed
                   ELSE IF Len(w) <= 1
                   THEN \* line 104: return [], warnings, {}; [] is a new list
                        /\ EnforceReturn(HeapNew(run.heap, <<>>), NewRef(run.heap),
                               Append(warnings, InsufficientWarning(request.budget, cost)),
                               <<>>)
                        /\ UNCHANGED removed
                   ELSE LET worst == _find_worst_value(countries_data, w,
                                                       request.interests)
                        IN  /\ warnings' = Append(warnings,
                                   RemovedWarning(worst,
                                       calculate_country_cost(countries_data, worst,
                                                              MIN_DAYS_PER_COUNTRY)))
                            /\ \* line 112: working.remove(worst)
                               heap' = [run.heap EXCEPT
                                           ![working] = EnforceRemove(@, worst)]
                            /\ removed' = Append(removed, worst)
                            /\ UNCHANGED <<pc, enforce_ret>>

-----------------------------------------------------------------------------
(* routes/itinerary.py: generate_itinerary *)

\* generate_summary(...)["cost_saving_tips"] (budget.py lines 142-159):
\* utilization = total_cost / budget * 100 is compared with 85 by cross
\* multiplication, which gives the float result for whole amounts
CostSavingTips(cost, budget) ==
    IF budget > 0 /\ cost * 100 >= 85 * budget
    THEN <<"hostels_or_guesthouses", "flight_deals", "free_activities",
           "local_transportation">>
    ELSE IF budget - cost > 500
    THEN <<"extend_stays", "upgrade_accommodation", "special_experiences">>
    ELSE <<>>

\* lines 116-131 and 153-167: the response of a planning failure
FailureResponse(warns, tips) ==
    [NoResponse EXCEPT !.status = 200, !.warnings = warns, !.tips = tips]

\* lines 179-253: one stop per interior element of the route
Stops(data, r, dd) ==
    [i \in 1..Len(Interior(r)) |->
        [country |-> Interior(r)[i],
         days |-> DaysGet(dd, Interior(r)[i]),
         total_cost |-> calculate_country_cost(data, Interior(r)[i],
                                               DaysGet(dd, Interior(r)[i]))]]

\* the validation without the trip length check of lines 101-106
GI_ValidateHomeOnly ==
    /\ pc = "validate"
    /\ IF request.home_country \notin Range(Keys(countries_data))
       THEN /\ response' = [NoResponse EXCEPT !.status = 400, !.detail = "unknown_country"]
            /\ pc' = "done"
       ELSE /\ pc' = "select"
            /\ UNCHANGED response
    /\ UNCHANGED <<countries_data, served, heap, two_opt, request, selected, initial_selected, route,
                   days_distribution, total_cost, warnings, working, removed,
                   iterations, enforce_ret, fp_memo, _distance_cache>>

\* lines 90-106: the two HTTP 400 rejections
GI_Validate ==
    /\ pc = "validate"
    /\ IF request.home_country \notin Range(Keys(countries_data))
       THEN /\ response' = [NoResponse EXCEPT !.status = 400, !.detail = "unknown_country"]
            /\ pc' = "done"
       ELSE IF request.total_days < request.num_countries * 2
       THEN /\ response' = [NoResponse EXCEPT !.status = 400, !.detail = "not_enough_days"]
            /\ pc' = "done"
       ELSE /\ pc' = "select"
            /\ UNCHANGED response
    /\ UNCHANGED <<countries_data, served, heap, two_opt, request, selected, initial_selected, route,
                   days_distribution, total_cost, warnings, working, removed,
                   iterations, enforce_ret, fp_memo, _distance_cache>>

\* Step 1 without the `if not selected` return of lines 116-131
GI_SelectUnguarded ==
    /\ pc = "select"
    /\ LET sel == select_countries(countries_data, request.interests,
                                   request.num_countries, request.home_country,
                                   request.budget)
       IN  /\ selected' = sel
           /\ initial_selected' = sel
           /\ pc' = "route"
           /\ UNCHANGED response
    /\ UNCHANGED <<countries_data, served, heap, two_opt, request, route, days_distribution, total_cost,
                   warnings, working, removed, iterations, enforce_ret, fp_memo, _distance_cache>>

\* lines 108-131: Step 1, select countries
GI_Select ==
    /\ pc = "select"
    /\ LET sel == select_countries(countries_data, request.interests,
                                   request.num_countries, request.home_country,
                                   request.budget)
       IN  /\ selected' = sel
           /\ initial_selected' = sel
           /\ IF sel = <<>>
              THEN /\ response' = FailureResponse(<<NoMatchWarning>>, <<"increase_budget">>)
                   /\ pc' = "done"
              ELSE /\ pc' = "route"
                   /\ UNCHANGED response
    /\ UNCHANGED <<countries_data, served, heap, two_opt, request, route, days_distribution, total_cost,
                   warnings, working, removed, iterations, enforce_ret, fp_memo, _distance_cache>>

\* lines 133-140: Steps 2-4, route, distribute days, first cost evaluation
GI_Plan ==
    /\ pc = "route"
    /\ \E run \in solve_tsp(countries_data, _distance_cache, <<selected>>,
                             CallerList, request.home_country, fp_memo) :
         LET r == run.heap[run.route]
             dd == distribute_days(countries_data, request.total_days, r,
                                   request.interests)
             cost == calculate_total_cost(countries_data, r, dd)
         IN  /\ route' = r
             /\ selected' = run.heap[CallerList]
             /\ fp_memo' = run.memo
             /\ two_opt' = run.run
             /\ _distance_cache' = run.cache
             /\ days_distribution' = dd
             /\ total_cost' = cost
             /\ IF cost > request.budget
                THEN \* line 143: enforce_budget(countries=selected, ...)
                     /\ EnforceEnter(run.heap[CallerList])
                     /\ pc' = "enforce"
                ELSE /\ pc' = "respond"
                     /\ warnings' = <<>>
                     /\ UNCHANGED <<working, removed, iterations, enforce_ret, heap>>
    /\ UNCHANGED <<countries_data, served, request, initial_selected, response>>

\* lines 143-171: enforce_budget has returned
GI_AfterEnforce ==
    /\ pc = "after_enforce"
    /\ warnings' = enforce_ret.warnings
    /\ IF enforce_ret.countries = <<>>
       THEN /\ selected' = enforce_ret.countries
            /\ response' = FailureResponse(enforce_ret.warnings, <<>>)
            /\ days_distribution' = enforce_ret.days
            /\ pc' = "done"
            /\ UNCHANGED <<route, fp_memo, _distance_cache, two_opt>>
       ELSE \* lines 169-171: re-route with the reduced set
            \E run \in solve_tsp(countries_data, _distance_cache,
                                 <<enforce_ret.countries>>, CallerList,
                                 request.home_country, fp_memo) :
              /\ route' = run.heap[run.route]
              /\ selected' = run.heap[CallerList]
              /\ fp_memo' = run.memo
              /\ two_opt' = run.run
              /\ _distance_cache' = run.cache
              /\ days_distribution' = distribute_days(countries_data, request.total_days,
                                                      run.heap[run.route],
                                                      request.interests)
              /\ pc' = "respond"
              /\ UNCHANGED response
    /\ UNCHANGED <<countries_data, served, heap, request, initial_selected,
                   total_cost, working, removed, iterations, enforce_ret>>

\* lines 173-274: Step 5, the response of a successful plan
GI_Respond ==
    /\ pc = "respond"
    /\ response' = [NoResponse EXCEPT
                       !.status = 200,
                       !.success = TRUE,
                       !.stops = Stops(countries_data, route, days_distribution),
                       !.route = route,
                       !.warnings = warnings,
                       !.total_cost = calculate_total_cost(countries_data, route,
                                                           days_distribution),
                       \* line 260: generate_summary(final_cost, request.budget, ...)
                       !.tips = CostSavingTips(
                                    calculate_total_cost(countries_data, route,
                                                         days_distribution),
                                    request.budget)]
    /\ \* line 259: optimizer.get_route_total_distance(route)
       _distance_cache' = _route_total_distance(countries_data, _distance_cache,
                                                route).cache
    /\ pc' = "done"
    /\ UNCHANGED <<countries_data, served, heap, two_opt, request, selected, initial_selected, route,
                   days_distribution, total_cost, warnings, working, removed,
                   iterations, enforce_ret, fp_memo>>

-----------------------------------------------------------------------------
(* The modelled catalogs and requests *)

HomeName == "A"
DestNames == <<"B", "C", "D", "E", "F">>

\* <<avg_travel_cost, avg_accommodation_cost>> of a destination
CostOptions == { <<5, 2>>, <<14, 7>> }
InterestOptions == { {"beach"}, {"beach", "food"} }

HomeRecord(travel) ==
    [country |-> HomeName, avg_travel_cost |-> travel, avg_accommodation_cost |-> 3,
     interests |-> {"beach", "food"}, coordinates |-> Places[1]]

DestRecord(i, cost, tags) ==
    [country |-> DestNames[i], avg_travel_cost |-> cost[1],
     avg_accommodation_cost |-> cost[2], interests |-> tags,
     coordinates |-> Places[i + 1]]

\* catalogs of the home country followed by n destinations
CatalogsOf(n, homeTravels, costs, tagsets) ==
    { <<HomeRecord(t)>> \o [i \in 1..n |-> DestRecord(i, c[i], g[i])] :
        t \in homeTravels, c \in [1..n -> costs], g \in [1..n -> tagsets] }

Budgets == { 17 * k : k \in 1..MaxBudgetSteps }

BaseRequest ==
    [call |-> "none", home_country |-> HomeName, num_countries |-> 1,
     interests |-> {"beach"}, budget |-> 17, total_days |-> 2,
     countries |-> <<>>, route |-> <<>>, days_distribution |-> <<>>]

\* ItineraryRequest: num_countries >= 1, interests non-empty, budget > 0,
\* end_date > start_date (so total_days >= 2)
ItineraryRequestsFor(interestSets) ==
    { r \in
      { [BaseRequest EXCEPT !.call = "generate_itinerary", !.num_countries = n,
                          !.interests = g, !.budget = b,
                          !.total_days = n * 2 + e] :
        n \in 1..MaxNum, g \in interestSets, b \in Budgets,
        e \in (-1)..MaxExtraDays } : r.total_days >= 2 }

ItineraryRequests ==
    ItineraryRequestsFor({ {"food"}, {"beach", "food"} })
    \cup
    { [BaseRequest EXCEPT !.call = "generate_itinerary", !.home_country = "Atlantis",
                          !.num_countries = n, !.total_days = 2 * n] :
        n \in 1..MaxNum }

InitLocals ==
    /\ selected = <<>>
    /\ initial_selected = <<>>
    /\ route = <<>>
    /\ days_distribution = <<>>
    /\ total_cost = 0
    /\ warnings = <<>>
    /\ working = 0
    /\ removed = <<>>
    /\ iterations = 0
    /\ enforce_ret = NoReturn
    /\ response = NoResponse
    /\ heap = <<>>
    /\ two_opt = NoRun
    /\ fp_memo = NoMemo

\* the services constructed at module load (lines 37-42), no request served yet
InitProcess ==
    /\ _distance_cache = EmptyCache
    /\ served = <<>>

-----------------------------------------------------------------------------
(* Direct calls of the services' public methods *)

\* selector.select_countries(interests, num_countries, home_country, budget)
CallSelect ==
    /\ pc = "call"
    /\ request.call = "select_countries"
    /\ selected' = select_countries(countries_data, request.interests,
                                    request.num_countries, request.home_country,
                                    request.budget)
    /\ pc' = "done"
    /\ UNCHANGED <<countries_data, served, heap, two_opt, request, initial_selected, route, days_distribution,
                   total_cost, warnings, working, removed, iterations, enforce_ret,
                   response, fp_memo, _distance_cache>>

\* optimizer.solve_tsp(countries, home)
CallSolveTsp ==
    /\ pc = "call"
    /\ request.call = "solve_tsp"
    /\ \E run \in solve_tsp(countries_data, _distance_cache, <<request.countries>>,
                             CallerList, request.home_country, fp_memo) :
         /\ route' = run.heap[run.route]
         /\ heap' = run.heap
         /\ fp_memo' = run.memo
         /\ two_opt' = run.run
         /\ _distance_cache' = run.cache
    /\ pc' = "done"
    /\ UNCHANGED <<countries_data, served, request, selected, initial_selected,
                   days_distribution, total_cost, warnings, working, removed,
                   iterations, enforce_ret, response>>

\* optimizer.nearest_neighbor_tsp(countries, home)
CallNearestNeighbor ==
    /\ pc = "call"
    /\ request.call = "nearest_neighbor_tsp"
    /\ LET run == nearest_neighbor_tsp(countries_data, _distance_cache,
                                       <<request.countries>>, CallerList,
                                       request.home_country)
       IN  /\ route' = run.heap[run.route]
           /\ heap' = run.heap
           /\ _distance_cache' = run.cache
    /\ pc' = "done"
    /\ UNCHANGED <<countries_data, served, request, selected, initial_selected,
                   days_distribution, total_cost, warnings, working, removed,
                   iterations, enforce_ret, response, fp_memo, two_opt>>

\* optimizer.two_opt_improve(route)
CallTwoOpt ==
    /\ pc = "call"
    /\ request.call = "two_opt_improve"
    /\ \E run \in two_opt_improve(countries_data, _distance_cache, <<request.route>>,
                                    CallerList, fp_memo) :
         /\ route' = run.heap[run.route]
         /\ heap' = run.heap
         /\ fp_memo' = run.memo
         /\ two_opt' = run.run
         /\ _distance_cache' = run.cache
    /\ pc' = "done"
    /\ UNCHANGED <<countries_data, served, request, selected, initial_selected,
                   days_distribution, total_cost, warnings, working, removed,
                   iterations, enforce_ret, response>>

\* optimizer.distribute_days(total_days, route, selected_interests)
CallDistribute ==
    /\ pc = "call"
    /\ request.call = "distribute_days"
    /\ days_distribution' = distribute_days(countries_data, request.total_days,
                                            request.route, request.interests)
    /\ pc' = "done"
    /\ UNCHANGED <<countries_data, served, heap, two_opt, request, selected, initial_selected, route,
                   total_cost, warnings, working, removed, iterations, enforce_ret,
                   response, fp_memo, _distance_cache>>

\* budget_service.enforce_budget(countries, home, budget, optimizer, interests)
CallEnforce ==
    /\ pc = "call"
    /\ request.call = "enforce_budget"
    /\ EnforceEnter(request.countries)
    /\ pc' = "enforce"
    /\ UNCHANGED <<countries_data, served, request, selected, initial_selected, route,
                   days_distribution, total_cost, response, fp_memo, _distance_cache,
                   two_opt>>

\* budget_service.calculate_total_cost(route, days_distribution)
CallTotalCost ==
    /\ pc = "call"
    /\ request.call = "calculate_total_cost"
    /\ total_cost' = calculate_total_cost(countries_data, request.route,
                                          request.days_distribution)
    /\ pc' = "done"
    /\ UNCHANGED <<countries_data, served, heap, two_opt, request, selected,
                   initial_selected, route, days_distribution, warnings, working,
                   removed, iterations, enforce_ret, response, fp_memo,
                   _distance_cache>>

-----------------------------------------------------------------------------
(* Spec: one call of generate_itinerary *)

\* one-destination catalogs whose destination costs 19 for the minimum stay and
\* whose home country is cheap or expensive to fly back to
EdgeCatalogs == CatalogsOf(1, {5, 20}, { <<5, 7>> }, InterestOptions)

\* two-destination catalogs with a destination that is cheap to stay in and
\* dear to fly to: <<17, 1>> costs 19 for the minimum stay (one $10 step of the
\* knapsack table, like <<5, 7>>) and 17 to fly home from, so that a plan of
\* this destination alone costs 36.  Beside a destination of cost 9 (no step)
\* the Selector takes both within a budget of 34.
DearFlightCatalogs ==
    CatalogsOf(2, {5}, { <<17, 1>>, <<5, 2>> },
               { {"beach"}, {"art", "beach", "food"} })

Init ==
    /\ \/ /\ countries_data \in
                UNION { CatalogsOf(n, {5}, CostOptions, InterestOptions) :
                        n \in 1..MaxDest } \cup EdgeCatalogs
          /\ request \in ItineraryRequests
       \/ /\ countries_data \in DearFlightCatalogs
          /\ request \in ItineraryRequestsFor({ {"art", "beach", "food"} })
    /\ pc = "validate"
    /\ InitLocals
    /\ InitProcess

Next ==
    \/ GI_Validate
    \/ GI_Select
    \/ GI_Plan
    \/ EnforceStep
    \/ GI_AfterEnforce
    \/ GI_Respond

Spec == Init /\ [][Next]_vars

-----------------------------------------------------------------------------
(* SpecSelect: one call of select_countries *)

\* sequences of k distinct elements of S
InjSeqs(S, k) == { f \in [1..k -> S] : \A i, j \in 1..k : i < j => f[i] # f[j] }

BigNames ==
    <<
       "N01", "N02", "N03", "N04", "N05", "N06", "N07", "N08", "N09",
       "N10", "N11", "N12", "N13", "N14", "N15", "N16", "N17", "N18",
       "N19", "N20", "N21", "N22", "N23", "N24", "N25", "N26", "N27",
       "N28", "N29", "N30", "N31", "N32", "N33", "N34", "N35", "N36",
       "N37", "N38", "N39", "N40", "N41", "N42", "N43", "N44", "N45",
       "N46", "N47", "N48", "N49", "N50", "N51", "N52" >>

\* entry i of the large catalog of variant v
BigRecord(i, v) ==
    [country |-> BigNames[i],
     avg_travel_cost |-> 3 + ((i * 7 + v) % 11),
     avg_accommodation_cost |-> 1 + ((i + v) % 4),
     interests |-> IF (i + v) % 3 = 0 THEN {"beach", "food"} ELSE {"beach"},
     coordinates |-> Places[1 + (i % Len(Places))]]

\* catalogs with more than KNAPSACK_MAX_CANDIDATES destinations
BigCatalogs ==
    { <<HomeRecord(5)>> \o [i \in 1..n |-> BigRecord(i, v)] :
        n \in (KNAPSACK_MAX_CANDIDATES + 1)..Len(BigNames), v \in 0..2 }

SelectRequests(interestSets) ==
    { [BaseRequest EXCEPT !.call = "select_countries", !.num_countries = n,
                          !.interests = g, !.budget = b] :
        n \in 1..MaxNum, g \in interestSets, b \in Budgets }

SelectInit ==
    /\ \/ /\ countries_data \in UNION { CatalogsOf(n, {5, 20}, CostOptions, InterestOptions) :
                                         n \in 1..MaxDest }
          /\ request \in SelectRequests({ {"food"}, {"beach", "food"}, {"ski"} })
       \/ /\ countries_data \in BigCatalogs
          /\ request \in SelectRequests({ {"beach"}, {"beach", "food"}, {"ski"} })
    /\ pc = "call"
    /\ InitLocals
    /\ InitProcess

SelectNext == CallSelect

SpecSelect == SelectInit /\ [][SelectNext]_vars

-----------------------------------------------------------------------------
(* SpecRoute: one call of solve_tsp *)

RouteInit ==
    /\ countries_data \in CatalogsOf(Len(DestNames), {5}, { <<5, 2>> }, { {"beach"} })
    /\ request \in
         { [BaseRequest EXCEPT !.call = m, !.countries = c] :
             m \in {"solve_tsp", "nearest_neighbor_tsp"},
             c \in UNION { InjSeqs(Range(DestNames) \cup {HomeName}, k) :
                           k \in 0..MaxStops } }
         \cup
         { [BaseRequest EXCEPT !.call = "two_opt_improve",
                               !.route = <<HomeName>> \o c \o <<HomeName>>] :
             c \in UNION { InjSeqs(Range(DestNames), k) : k \in 0..MaxStops } }
    /\ pc = "call"
    /\ InitLocals
    /\ InitProcess

RouteNext == CallSolveTsp \/ CallNearestNeighbor \/ CallTwoOpt

SpecRoute == RouteInit /\ [][RouteNext]_vars

-----------------------------------------------------------------------------
(* SpecAlloc: one call of distribute_days *)

AllocTagOptions == { {"beach"}, {"beach", "food"}, {"art", "beach", "food"} }

AllocInit ==
    /\ countries_data \in UNION { CatalogsOf(n, {5}, { <<5, 2>> }, AllocTagOptions) :
                                  n \in 1..MaxDest }
    /\ request \in
         { [BaseRequest EXCEPT !.call = "distribute_days", !.interests = g,
                               !.total_days = 2 * (Len(countries_data) - 1) + e,
                               !.route = <<HomeName>>
                                          \o SubSeq(Keys(countries_data), 2,
                                                    Len(countries_data))
                                          \o <<HomeName>>] :
             g \in { {"ski"}, {"food"}, {"art", "beach", "food"} },
             e \in (0 - MIN_DAYS_PER_COUNTRY)..MaxAllocExtra }
    /\ request.total_days >= 1
    /\ pc = "call"
    /\ InitLocals
    /\ InitProcess

AllocNext == CallDistribute

SpecAlloc == AllocInit /\ [][AllocNext]_vars

-----------------------------------------------------------------------------
(* SpecEnforce: one call of enforce_budget *)

\* a list and its reversal
Orders(s) == { s, Tuple(Reverse(s)) }

EnforceInit ==
    /\ countries_data \in UNION { CatalogsOf(n, {5}, CostOptions, InterestOptions) :
                                  n \in 1..MaxDest }
    /\ request \in
         { [BaseRequest EXCEPT !.call = "enforce_budget", !.interests = g,
                               !.budget = b, !.countries = c] :
             g \in { {"food"}, {"beach", "food"}, {"ski"} }, b \in Budgets,
             c \in Orders(Tail(Keys(countries_data))) \cup { <<>> } }
    /\ pc = "call"
    /\ InitLocals
    /\ InitProcess

EnforceNext == CallEnforce \/ EnforceStep

SpecEnforce == EnforceInit /\ [][EnforceNext]_vars

-----------------------------------------------------------------------------
(* SpecCost: one call of calculate_total_cost *)

\* allocations of the destinations of list c, and the empty allocation
CostAllocations(c) ==
    [Range(c) -> MIN_DAYS_PER_COUNTRY..(MIN_DAYS_PER_COUNTRY + MaxExtraDays)]
        \cup { <<>> }

CostInit ==
    /\ countries_data \in UNION { CatalogsOf(n, {5, 20}, CostOptions, { {"beach"} }) :
                                  n \in 1..MaxDest }
    /\ request \in
         { [BaseRequest EXCEPT !.call = "calculate_total_cost",
                               !.route = <<HomeName>> \o c[1] \o <<HomeName>>,
                               !.days_distribution = c[2]] :
             c \in UNION { { <<x, dd>> : dd \in CostAllocations(x) } :
                           x \in UNION { InjSeqs(Range(Tail(Keys(countries_data))), k) :
                                         k \in 0..3 } } }
    /\ pc = "call"
    /\ InitLocals
    /\ InitProcess

CostNext == CallTotalCost

SpecCost == CostInit /\ [][CostNext]_vars

-----------------------------------------------------------------------------
(* SpecSession: one process serving several requests in a row.  The route is
   an `async def` without an await, so requests are served one at a time; the
   services of lines 37-42 live as long as the process. *)

\* requests served by one process
MaxSession == 3

\* what a served request leaves in the history
Outcome ==
    [request |-> request, response |-> response, route |-> route,
     days_distribution |-> days_distribution, warnings |-> warnings,
     cache_before |-> IF served = <<>> THEN EmptyCache
                      ELSE served[Len(served)].cache_after,
     cache_after |-> _distance_cache]

SessionRequests ==
    { [BaseRequest EXCEPT !.call = "generate_itinerary", !.num_countries = n,
                          !.interests = {"beach", "food"}, !.budget = b,
                          !.total_days = n * 2 + 1] :
      n \in 1..3, b \in {17, 34} }

\* generate_itinerary has returned; the locals of the call are gone and the
\* process takes the next request, if any
NextRequest ==
    /\ pc = "done"
    /\ Len(served) < MaxSession
    /\ served' = Append(served, Outcome)
    /\ IF Len(served) + 1 < MaxSession
       THEN /\ request' \in SessionRequests
            /\ pc' = "validate"
       ELSE /\ pc' = "idle"
            /\ UNCHANGED request
    /\ selected' = <<>>
    /\ initial_selected' = <<>>
    /\ route' = <<>>
    /\ days_distribution' = <<>>
    /\ total_cost' = 0
    /\ warnings' = <<>>
    /\ working' = 0
    /\ removed' = <<>>
    /\ iterations' = 0
    /\ enforce_ret' = NoReturn
    /\ response' = NoResponse
    /\ heap' = <<>>
    /\ two_opt' = NoRun
    /\ UNCHANGED <<countries_data, fp_memo, _distance_cache>>

SessionInit ==
    /\ countries_data \in CatalogsOf(3, {5}, { <<5, 2>> }, InterestOptions)
    /\ request \in SessionRequests
    /\ pc = "validate"
    /\ InitLocals
    /\ InitProcess

SessionNext == Next \/ NextRequest

SpecSession == SessionInit /\ [][SessionNext]_vars

-----------------------------------------------------------------------------
(* Claims *)

\* C1: every successful plan fits the budget: when generate_itinerary returns
\* success, the cost of the returned stops (travel + accommodation x allocated
\* days each) plus the return leg from the last stop is at most the requested
\* budget.
C1_SuccessWithinBudget ==
    (pc = "done" /\ request.call = "generate_itinerary" /\ response.success)
        => LET stop_costs == [i \in 1..Len(response.stops) |->
                                 response.stops[i].total_cost]
           IN  SumSeq(stop_costs) + ReturnFlight(countries_data, response.route)
                   <= request.budget

\* C2: enforce_budget terminates within n loop bodies for a list of n distinct
\* destinations: while the loop runs, every body run so far found the plan
\* over budget and removed exactly one destination, the working list is never
\* emptied by a removal, and once the call has returned the body has run at
\* most n times, the last run being the one that returned.
C2_EnforceShrinks ==
    (request.call = "enforce_budget" /\ pc \in {"enforce", "done"}) =>
        LET n == Len(request.countries)
        IN  /\ Range(WorkingList) \subseteq Range(request.countries)
            /\ Len(removed) + Len(WorkingList) = n
            /\ iterations <= n
            /\ pc = "enforce" =>
                    /\ Len(WorkingList) = n - iterations
                    /\ n > 0 => WorkingList # <<>>
            /\ (pc = "done" /\ n > 0) => Len(WorkingList) = n - iterations + 1

\* a call on three destinations whose loop body ran three times
C2_Witness ==
    /\ request.call = "enforce_budget"
    /\ pc = "done"
    /\ Len(request.countries) >= 3
    /\ iterations = Len(request.countries)

\* C3: with at most 50 candidates, no subset of the candidates that fits the
\* working budget and has at most num_countries members has a strictly higher
\* total interest score than the list select_countries returned.
C3_KnapsackOptimal ==
    (pc = "done" /\ request.call = "select_countries") =>
        LET names == { c \in Range(Keys(countries_data)) \ {request.home_country} :
                         interest_score(countries_data, c, request.interests) > 0 }
            order == Keys(countries_data)
            total_score(S) ==
                SumSeq([i \in 1..Len(order) |->
                          IF order[i] \in S
                          THEN interest_score(countries_data, order[i], request.interests)
                          ELSE 0])
            total_min_cost(S) ==
                SumSeq([i \in 1..Len(order) |->
                          IF order[i] \in S THEN minimum_cost(countries_data, order[i])
                          ELSE 0])
        IN  Cardinality(names) <= KNAPSACK_MAX_CANDIDATES =>
                \A S \in SUBSET names :
                    (/\ Cardinality(S) <= request.num_countries
                     /\ total_min_cost(S) * 10
                           <= working_budget10(countries_data, request.budget))
                        => total_score(S) <= total_score(Range(selected))

\* C4: the minimum visit costs of the destinations select_countries returned
\* sum to at most the working budget, budget x 0.9 - the largest travel cost
\* of the catalog (compared in tenths).
C4_SelectionWithinWorkingBudget ==
    (pc = "done" /\ request.call = "select_countries" /\ selected # <<>>) =>
        SumSeq([i \in 1..Len(selected) |-> minimum_cost(countries_data, selected[i])]) * 10
            <= working_budget10(countries_data, request.budget)

\* C5: the list select_countries returned has no duplicates, at most
\* num_countries members, only names of the catalog, never the home country,
\* and only destinations of interest score > 0 for the requested interests.
C5_SelectionMembership ==
    (pc = "done" /\ request.call = "select_countries") =>
        /\ \A i, j \in 1..Len(selected) : i < j => selected[i] # selected[j]
        /\ Len(selected) <= request.num_countries
        /\ \A i \in 1..Len(selected) :
              /\ selected[i] \in Range(Keys(countries_data))
              /\ selected[i] # request.home_country
              /\ interest_score(countries_data, selected[i], request.interests) > 0

\* a selection of several destinations made by the greedy path (more than 50
\* candidates)
C5_Witness ==
    /\ pc = "done"
    /\ request.call = "select_countries"
    /\ Len(Candidates(countries_data, request.interests, request.home_country))
          > KNAPSACK_MAX_CANDIDATES
    /\ Len(selected) >= 2
    /\ Len(selected) = request.num_countries

\* C6: for k distinct destinations other than home, solve_tsp returns k + 2
\* elements, home first and last, the interior a permutation of the
\* destinations passed in.
C6_RouteValid ==
    (pc = "done" /\ request.call = "solve_tsp"
                /\ request.home_country \notin Range(request.countries)) =>
        LET k == Len(request.countries)
        IN  /\ Len(route) = k + 2
            /\ route[1] = request.home_country
            /\ route[k + 2] = request.home_country
            /\ { route[i] : i \in 2..(k + 1) } = Range(request.countries)
            /\ \A i, j \in 2..(k + 1) : i < j => route[i] # route[j]

\* a route of four destinations that 2-opt changed
C6_Witness ==
    /\ pc = "done"
    /\ request.call = "solve_tsp"
    /\ Len(request.countries) >= 4
    /\ route # NearestNeighborRoute(countries_data, request.countries,
                                    request.home_country)

\* C7: in every successful response of generate_itinerary, trimmed or not, the
\* days of the returned stops sum to exactly the requested total_days and
\* every stop has at least MIN_DAYS_PER_COUNTRY days.
C7_AllocationExact ==
    (pc = "done" /\ request.call = "generate_itinerary" /\ response.success)
        => /\ SumSeq([i \in 1..Len(response.stops) |-> response.stops[i].days])
                  = request.total_days
           /\ \A i \in 1..Len(response.stops) :
                  response.stops[i].days >= MIN_DAYS_PER_COUNTRY

\* a successful plan after trimming, with two stops of different length and
\* more days than the minimum stays
C7_Witness ==
    /\ pc = "done"
    /\ request.call = "generate_itinerary"
    /\ response.success
    /\ removed # <<>>
    /\ Len(response.stops) = 2
    /\ response.stops[1].days # response.stops[2].days
    /\ request.total_days > 2 * MIN_DAYS_PER_COUNTRY

\* C8: for a route of n >= 1 interior destinations and total_days >= n x
\* MIN_DAYS_PER_COUNTRY, whatever the interests, the days distribute_days
\* returns sum to exactly total_days and each is at least
\* MIN_DAYS_PER_COUNTRY.
C8_AllocatorPostcondition ==
    (pc = "done" /\ request.call = "distribute_days") =>
        LET stops == Interior(request.route)
        IN  (Len(stops) >= 1 /\ request.total_days >= Len(stops) * MIN_DAYS_PER_COUNTRY)
                => /\ DOMAIN days_distribution = Range(stops)
                   /\ SumSeq([i \in 1..Len(stops) |-> days_distribution[stops[i]]])
                          = request.total_days
                   /\ \A i \in 1..Len(stops) :
                          days_distribution[stops[i]] >= MIN_DAYS_PER_COUNTRY

\* C9: every destination enforce_budget removed had a value ratio (minimum
\* cost / interest score, infinite for score 0) at least that of every
\* destination then still in the working list, i.e. of every destination
\* removed later and of every destination left; so the removals come in
\* non-increasing ratio order.
C9_WorstValueRemoved ==
    request.call = "enforce_budget" =>
        \A k \in 1..Len(removed) :
            \A c \in { removed[j] : j \in (k + 1)..Len(removed) } \cup Range(WorkingList) :
                LET score_k == interest_score(countries_data, removed[k], request.interests)
                    score_c == interest_score(countries_data, c, request.interests)
                    cost_k  == minimum_cost(countries_data, removed[k])
                    cost_c  == minimum_cost(countries_data, c)
                IN  \/ score_k = 0
                    \/ score_c > 0 /\ cost_k * score_c >= cost_c * score_k

\* two removals, the first of strictly worse value than the second, and the
\* first one not the last element of the list passed in
C9_Witness ==
    /\ request.call = "enforce_budget"
    /\ Len(removed) >= 2
    /\ removed[1] # request.countries[Len(request.countries)]
    /\ RatioGreater(ValueRatio(countries_data, removed[1], request.interests),
                    ValueRatio(countries_data, removed[2], request.interests))

\* C10: when the destinations of the final result of generate_itinerary, or
\* the list enforce_budget returned, differ from the Selector's initial
\* selection, the warnings returned with them are not empty.
C10_WarningsWhenChanged ==
    request.call = "generate_itinerary" =>
        /\ (pc = "done"
              /\ { response.stops[i].country : i \in 1..Len(response.stops) }
                    # Range(initial_selected))
                => response.warnings # <<>>
        /\ (enforce_ret.returned /\ Range(enforce_ret.countries) # Range(initial_selected))
                => enforce_ret.warnings # <<>>

\* a successful plan with fewer stops than were selected
C10_Witness ==
    /\ pc = "done"
    /\ request.call = "generate_itinerary"
    /\ response.success
    /\ Len(response.stops) < Len(initial_selected)
    /\ response.warnings # <<>>

-----------------------------------------------------------------------------
\* enforce_budget has returned from an iteration over exactly one destination
\* whose total cost exceeded the budget
SingleOverBudget ==
    /\ enforce_ret.returned
    /\ Len(WorkingList) = 1
    /\ total_cost > request.budget

\* C11: when enforce_budget reaches a working set of exactly one destination
\* whose total cost still exceeds the budget, it returns an empty destination
\* list, an empty allocation and warnings whose last entry states the minimum
\* cost needed (the cost of that last iteration), after one entry for each
\* destination removed before; generate_itinerary then answers success = False
\* with no stops and exactly those warnings.
C11_BudgetInfeasibleAtMinimum ==
    SingleOverBudget =>
        /\ enforce_ret.countries = <<>>
        /\ enforce_ret.days = <<>>
        /\ Len(enforce_ret.warnings) = Len(removed) + 1
        /\ \A k \in 1..Len(removed) :
               /\ enforce_ret.warnings[k].kind = "removed"
               /\ enforce_ret.warnings[k].country = removed[k]
        /\ enforce_ret.warnings[Len(enforce_ret.warnings)] =
               [kind |-> "insufficient", country |-> "none", amount |-> total_cost]
        /\ pc = "done" =>
               /\ response.status = 200
               /\ response.success = FALSE
               /\ response.stops = <<>>
               /\ response.warnings = enforce_ret.warnings

\* generate_itinerary has answered after the Enforcer removed a destination and
\* then found the last remaining one still over budget
C11_Witness ==
    /\ pc = "done"
    /\ request.call = "generate_itinerary"
    /\ SingleOverBudget
    /\ Len(initial_selected) = 2
    /\ Len(removed) = 1
    /\ Len(enforce_ret.warnings) = 2
    /\ enforce_ret.warnings[1].kind = "removed"
    /\ enforce_ret.warnings[1].country = removed[1]
    /\ enforce_ret.warnings[2].kind = "insufficient"
    /\ response.success = FALSE
    /\ response.warnings = enforce_ret.warnings

\* C12: a call of distribute_days with total_days below interior_count times
\* the minimum stay does not return a mapping (the call fails and leaves no
\* allocation behind); in particular no allocation whose sum differs from
\* total_days is ever returned.
C12_AllocationUnderflowSignalled ==
    (pc = "done" /\ request.call = "distribute_days") =>
        LET stops == Interior(request.route)
        IN  /\ (Len(stops) >= 1
                 /\ request.total_days < Len(stops) * MIN_DAYS_PER_COUNTRY)
                    => days_distribution = <<>>
            /\ days_distribution # <<>>
                    => SumSeq([i \in 1..Len(stops) |-> days_distribution[stops[i]]])
                           = request.total_days

\* generate_itinerary has called select_countries
SelectorInvoked == pc \notin {"validate", "select"} /\ response.status # 400

\* C13: select_countries returns an empty list whenever no catalog entry other
\* than home matches an interest, or whenever budget * 0.9 minus the largest
\* travel cost of the catalog is <= 0; and whenever the selection is empty
\* generate_itinerary answers success = False with no stops, an empty route,
\* a warning and the tip to increase the budget or change interests, and the
\* Router, the Allocator and the Enforcer have not run.
C13_NoFeasibleCandidates ==
    SelectorInvoked =>
        /\ ( \/ \A i \in 1..Len(countries_data) :
                    \/ countries_data[i].country = request.home_country
                    \/ countries_data[i].interests \cap request.interests = {}
             \/ working_budget10(countries_data, request.budget) <= 0 )
                => initial_selected = <<>>
        /\ initial_selected = <<>> =>
                /\ pc = "done"
                /\ response.status = 200
                /\ response.success = FALSE
                /\ response.stops = <<>>
                /\ response.route = <<>>
                /\ response.warnings # <<>>
                /\ response.tips = <<"increase_budget">>
                /\ route = <<>>
                /\ fp_memo = NoMemo
                /\ days_distribution = <<>>
                /\ iterations = 0
                /\ ~enforce_ret.returned

\* a request whose interests match a destination but whose budget leaves no
\* working budget has been answered
C13_Witness ==
    /\ SelectorInvoked
    /\ pc = "done"
    /\ initial_selected = <<>>
    /\ working_budget10(countries_data, request.budget) <= 0
    /\ Candidates(countries_data, request.interests, request.home_country) # <<>>
    /\ response.success = FALSE

\* C14: a request with total_days < num_countries * minimum stay is rejected
\* with an error before the Selector, the Router, the Allocator or the
\* Enforcer runs; hence whenever generate_itinerary has routed destinations
\* and allocated the requested trip length to them, total_days is at least the
\* number of interior destinations times the minimum stay.
C14_CallerSideUnderflowGuard ==
    /\ request.total_days < request.num_countries * MIN_DAYS_PER_COUNTRY =>
            /\ pc \in {"validate", "done"}
            /\ pc = "done" => response.status = 400 /\ ~response.success
            /\ selected = <<>>
            /\ initial_selected = <<>>
            /\ route = <<>>
            /\ days_distribution = <<>>
            /\ iterations = 0
            /\ ~enforce_ret.returned
    /\ route # <<>> =>
            request.total_days >= Len(Interior(route)) * MIN_DAYS_PER_COUNTRY

\* a request from a known home country with one day too few has been rejected
C14_Witness ==
    /\ pc = "done"
    /\ request.home_country \in Range(Keys(countries_data))
    /\ request.total_days = request.num_countries * MIN_DAYS_PER_COUNTRY - 1
    /\ response.status = 400
    /\ response.detail = "not_enough_days"

\* C15: two runs of the pipeline in the same process on identical requests
\* (the catalog never changes) end with identical route, identical day
\* allocation, identical warnings and identical response, whatever the
\* distance cache held when each of them started.
C15_PipelineIdempotent ==
    \A i, j \in 1..Len(served) :
        served[i].request = served[j].request =>
            /\ served[i].route = served[j].route
            /\ served[i].days_distribution = served[j].days_distribution
            /\ served[i].warnings = served[j].warnings
            /\ served[i].response = served[j].response

\* the same request over three destinations was served twice in a row, first
\* with the cache a different request had left and then with the larger cache
\* it had left itself
C15_Witness ==
    /\ Len(served) = 3
    /\ served[2].request = served[3].request
    /\ served[1].request # served[2].request
    /\ served[2].cache_before # EmptyCache
    /\ served[3].cache_before # served[2].cache_before
    /\ Len(served[3].route) >= 5
    /\ served[3].response.success

\* C16: no state is carried from one request into a later one besides the
\* catalog: every request starts with an empty distance cache.
C16_RequestIsolation ==
    pc = "validate" => _distance_cache = EmptyCache

\* C17: after solve_tsp, nearest_neighbor_tsp or two_opt_improve has returned,
\* the list object the caller passed (the destinations, with or without the
\* home country among them, or the route given to two_opt_improve) has the
\* same elements in the same order as before the call, whatever lists the
\* call created and changed besides.
C17_RouterLeavesInput ==
    /\ (pc = "done" /\ request.call \in {"solve_tsp", "nearest_neighbor_tsp"})
            => heap[CallerList] = request.countries
    /\ (pc = "done" /\ request.call = "two_opt_improve")
            => heap[CallerList] = request.route

\* solve_tsp has returned a route that 2-opt changed, for a list of four
\* entries with the home country among them; the list that the removals of
\* line 100 emptied is the object created at line 90, not the caller's
C17_Witness ==
    /\ pc = "done"
    /\ request.call = "solve_tsp"
    /\ Len(request.countries) >= 4
    /\ request.home_country \in Range(request.countries)
    /\ route # NearestNeighborRoute(countries_data, request.countries,
                                    request.home_country)
    /\ Len(heap) > CallerList + 1
    /\ heap[CallerList + 1] = <<>>
    /\ heap[CallerList] = request.countries

\* C18: after enforce_budget has returned, with the destinations that fit, with
\* an empty list or after any number of removals, the list object passed as
\* `countries` is as it was before the call, and the list returned is not the
\* list object that was passed.
C18_EnforcerLeavesInput ==
    (enforce_ret.returned /\ request.call = "enforce_budget") =>
        /\ heap[CallerList] = request.countries
        /\ ~enforce_ret.same_object

\* enforce_budget has returned the list it worked on after two removals from
\* it; the caller's list is two entries longer
C18_Witness ==
    /\ enforce_ret.returned
    /\ request.call = "enforce_budget"
    /\ Len(removed) >= 2
    /\ enforce_ret.countries # <<>>
    /\ enforce_ret.countries = heap[working]
    /\ heap[CallerList] = request.countries
    /\ Len(heap[CallerList]) = Len(heap[working]) + 2

\* C19: whenever enforce_budget has returned a non-empty destination list and
\* an allocation, routing that list from home again and costing the route
\* with the returned allocation gives a total cost <= the budget passed in.
C19_EnforcerSuccessWithinBudget ==
    (enforce_ret.returned /\ enforce_ret.countries # <<>>) =>
        \A run \in solve_tsp(countries_data, _distance_cache,
                             <<enforce_ret.countries>>, CallerList,
                             request.home_country, fp_memo) :
            calculate_total_cost(countries_data, run.heap[run.route],
                                 enforce_ret.days)
                <= request.budget

\* enforce_budget has returned three destinations whose route 2-opt could
\* reverse, with return flights that differ between the two ends, and a
\* budget that the costlier direction would exceed
C19_Witness ==
    /\ enforce_ret.returned
    /\ request.call = "enforce_budget"
    /\ Len(enforce_ret.countries) = 3
    /\ LET r == Interior(route)
       IN  /\ Lookup(countries_data, r[1]).avg_travel_cost
                > Lookup(countries_data, r[3]).avg_travel_cost
           /\ calculate_total_cost(countries_data,
                                   <<request.home_country>> \o Reverse(r)
                                       \o <<request.home_country>>,
                                   enforce_ret.days) > request.budget

\* the order of the identifiers "A" < "B" < ... < "F" (str comparison)
IdRank(c) == CHOOSE k \in 1..(Len(DestNames) + 1) : (<<HomeName>> \o DestNames)[k] = c

\* C20: in the route nearest_neighbor_tsp returns, every stop is, among the
\* destinations not yet visited, one of least distance from the stop before
\* it, and of those of least distance the one with the smallest identifier,
\* whatever the order of the input list.
C20_NearestTieBreak ==
    (pc = "done" /\ request.call = "nearest_neighbor_tsp") =>
        LET d(a, b) == get_distance(countries_data, EmptyCache, a, b).dist
        IN  \A i \in 2..(Len(route) - 1) :
                \A j \in i..(Len(route) - 1) :
                    /\ d(route[i - 1], route[i]) <= d(route[i - 1], route[j])
                    /\ d(route[i - 1], route[i]) = d(route[i - 1], route[j])
                           => IdRank(route[i]) <= IdRank(route[j])

\* the total distance of a route, as _route_total_distance computes it
RouteKm(r) == _route_total_distance(countries_data, EmptyCache, r).dist

\* C21: the route two_opt_improve returns is never longer than the route it
\* was given; the reversals it applied lead from the input to the result, each
\* to a route that `new_distance < best_distance` found strictly shorter (for
\* two directions of the same tour, by the float comparison as it came out);
\* and the route solve_tsp returns is never longer than the nearest-neighbour
\* route it started from.
C21_TwoOptNeverWorse ==
    (pc = "done" /\ request.call \in {"two_opt_improve", "solve_tsp"}) =>
        LET applied == two_opt.applied
            n == Len(applied)
        IN  /\ RouteKm(route) <= RouteKm(two_opt.input)
            /\ IF n = 0 THEN route = two_opt.input
               ELSE applied[1].from = two_opt.input /\ applied[n].to = route
            /\ \A k \in 1..n :
                   /\ applied[k].best_distance = RouteKm(applied[k].from)
                   /\ applied[k].new_distance = RouteKm(applied[k].to)
                   /\ k < n => applied[k + 1].from = applied[k].to
                   /\ \/ applied[k].new_distance < applied[k].best_distance
                      \/ /\ applied[k].new_distance = applied[k].best_distance
                         /\ <<applied[k].from, applied[k].to>> \in fp_memo.acc
            /\ request.call = "two_opt_improve" => two_opt.input = request.route
            /\ request.call = "solve_tsp" =>
                   /\ two_opt.input =
                          NearestNeighborRoute(countries_data, request.countries,
                                               request.home_country)
                   /\ RouteKm(route) <= RouteKm(two_opt.input)

\* solve_tsp has returned a route strictly shorter than the nearest-neighbour
\* route, reached by two or more reversals
C21_Witness ==
    /\ pc = "done"
    /\ request.call = "solve_tsp"
    /\ Len(two_opt.applied) >= 2
    /\ RouteKm(route) < RouteKm(two_opt.input)

\* lines 128-130: the routes one reversal of a contiguous interior segment
\* away from r
SingleReversals(r) ==
    UNION { { ReverseSegment(r, p, q) : q \in (p + 1)..(Len(r) - 1) } :
            p \in 2..(Len(r) - 2) }

\* line 133 asked of a route outside a run: can `new_distance < best_distance`
\* come out true for the candidate `new` against the route `best`
CanBeShorter(best, new) ==
    \/ RouteKm(new) < RouteKm(best)
    \/ /\ RouteKm(new) = RouteKm(best)
       /\ new # best
       /\ TRUE \in FloatLessOutcomes(fp_memo, best, new)

\* C22: two_opt_improve returns after at most TSP_2OPT_MAX_ITERATIONS passes of
\* its while loop, and when it returns before that cap no route one reversal
\* of a contiguous interior segment away from the returned route has a
\* strictly shorter total distance.
C22_TwoOptLocalOptimum ==
    (pc = "done" /\ request.call = "two_opt_improve") =>
        /\ two_opt.scans <= TSP_2OPT_MAX_ITERATIONS
        /\ two_opt.scans < TSP_2OPT_MAX_ITERATIONS =>
               \A new \in SingleReversals(route) : ~CanBeShorter(route, new)

\* the sum of f over the members of a finite set, each counted once
RECURSIVE SumOver(_, _)
SumOver(S, f) ==
    IF S = {} THEN 0
    ELSE LET x == CHOOSE y \in S : TRUE IN f[x] + SumOver(S \ {x}, f)

\* C23: for a route home, distinct stops, home with at least one stop and an
\* allocation covering every stop, calculate_total_cost is the sum over the
\* stops, each counted once, of travel cost + accommodation cost per day x
\* allocated days, plus the travel cost of the last stop once more; no cost
\* of the home country enters.
C23_CostFormula ==
    (pc = "done" /\ request.call = "calculate_total_cost") =>
        LET stops == Range(Interior(request.route))
            dd == request.days_distribution
            last == request.route[Len(request.route) - 1]
            visit == [c \in stops |->
                        Lookup(countries_data, c).avg_travel_cost
                          + Lookup(countries_data, c).avg_accommodation_cost * dd[c]]
        IN  (stops # {} /\ stops \subseteq DOMAIN dd) =>
                total_cost = SumOver(stops, visit)
                                + Lookup(countries_data, last).avg_travel_cost

\* the cost of three stops with different stays was computed, the last stop
\* being dearer to fly from than the first and the home country dearer still
C23_Witness ==
    /\ pc = "done"
    /\ request.call = "calculate_total_cost"
    /\ Len(request.route) = 5
    /\ DOMAIN request.days_distribution = Range(Interior(request.route))
    /\ request.days_distribution[request.route[2]]
           # request.days_distribution[request.route[3]]
    /\ Lookup(countries_data, request.route[4]).avg_travel_cost
           > Lookup(countries_data, request.route[2]).avg_travel_cost
    /\ Lookup(countries_data, HomeName).avg_travel_cost
           > Lookup(countries_data, request.route[4]).avg_travel_cost

\* C24: when no interior destination matches an interest, distribute_days
\* gives every interior destination the same number of days, the whole
\* quotient of total_days by their number or the minimum stay if that is
\* more; three such destinations and 9 days get 3 days each.
C24_EqualScoreFallback ==
    (pc = "done" /\ request.call = "distribute_days") =>
        LET stops == Interior(request.route)
            n == Len(stops)
        IN  (/\ n >= 1
             /\ \A i \in 1..n :
                   Lookup(countries_data, stops[i]).interests \cap request.interests = {})
                => /\ DOMAIN days_distribution = Range(stops)
                   /\ \A c \in Range(stops) :
                         LET d == days_distribution[c]
                         IN  /\ d >= MIN_DAYS_PER_COUNTRY
                             /\ d * n <= request.total_days \/ d = MIN_DAYS_PER_COUNTRY
                             /\ (d + 1) * n > request.total_days
                   /\ (n = 3 /\ request.total_days = 9) =>
                         \A c \in Range(stops) : days_distribution[c] = 3

\* three destinations without a matching interest were given 9 days
C24_Witness ==
    /\ pc = "done"
    /\ request.call = "distribute_days"
    /\ Len(Interior(request.route)) = 3
    /\ request.total_days = 9
    /\ \A c \in Range(Interior(request.route)) :
          /\ interest_score(countries_data, c, request.interests) = 0
          /\ days_distribution[c] = 3

\* select_countries has returned from the knapsack path (lines 85-86): it
\* did not return at line 71 (no candidates) or at line 82 (no working
\* budget), and there were at most 50 candidates
KnapsackPathDone ==
    /\ pc = "done"
    /\ request.call = "select_countries"
    /\ Candidates(countries_data, request.interests, request.home_country) # <<>>
    /\ working_budget10(countries_data, request.budget) > 0
    /\ Len(Candidates(countries_data, request.interests, request.home_country))
          <= KNAPSACK_MAX_CANDIDATES

\* C25 as stated: on the knapsack path the Selector returns at most
\* max_count - 1 destinations, one slot being held back.
C25_KnapsackReservesSlot ==
    KnapsackPathDone => Len(selected) <= request.num_countries - 1

\* C25, amended: on the knapsack path the Selector returns at most max_count
\* distinct destinations; no slot is held back.
C25_KnapsackCardinalityCap ==
    KnapsackPathDone =>
        /\ Len(selected) <= request.num_countries
        /\ Cardinality(Range(selected)) = Len(selected)

\* the knapsack path returned exactly max_count destinations out of more
\* candidates than that
C25_Witness ==
    /\ KnapsackPathDone
    /\ request.num_countries >= 2
    /\ Len(selected) = request.num_countries
    /\ Len(Candidates(countries_data, request.interests, request.home_country))
          > request.num_countries

\* line 59: the catalogs that hold the records of `data` in another order of
\* enumeration (every order for a small catalog, the opposite order for a
\* large one)
Reorderings(data) ==
    IF Len(data) <= MaxDest + 1
    THEN { Tuple([i \in 1..Len(data) |-> data[f[i]]]) :
             f \in InjSeqs(1..Len(data), Len(data)) }
    ELSE { Tuple(Reverse(data)) }

\* C26: select_countries returns the same set of destinations for every
\* order in which the catalog enumerates the same records, the interests,
\* max_count, home and budget being the same, on the knapsack path and on the
\* greedy path.
C26_SelectionIgnoresCatalogOrder ==
    (pc = "done" /\ request.call = "select_countries") =>
        \A other \in Reorderings(countries_data) :
            Range(select_countries(other, request.interests, request.num_countries,
                                   request.home_country, request.budget))
                = Range(selected)

\* C27: distribute_days never gives a destination of strictly higher interest
\* score fewer days than one of lower score; and when some interest matches,
\* every destination gets its minimum stay plus its whole proportional share
\* plus at most one leftover day, the leftover days going to the first
\* destinations in the order (score descending, allocation before the
\* leftover pass ascending).
C27_AllocationMonotone ==
    (pc = "done" /\ request.call = "distribute_days") =>
        LET stops == Range(Interior(request.route))
            n == Cardinality(stops)
            score == [c \in stops |->
                        Cardinality(Lookup(countries_data, c).interests
                                        \cap request.interests)]
            total == SumOver(stops, score)
            spare == request.total_days - n * MIN_DAYS_PER_COUNTRY
            before == [c \in stops |->
                         MIN_DAYS_PER_COUNTRY
                           + (IF spare > 0 THEN (spare * score[c]) \div total ELSE 0)]
            extra == [c \in stops |-> days_distribution[c] - before[c]]
        IN  n >= 1 =>
              /\ \A a, b \in stops :
                    score[a] > score[b] => days_distribution[a] >= days_distribution[b]
              /\ total > 0 =>
                    /\ \A c \in stops : extra[c] \in {0, 1}
                    /\ SumOver(stops, extra)
                          = Max(request.total_days - SumOver(stops, before), 0)
                    /\ \A a, b \in stops :
                          (extra[a] = 1 /\ extra[b] = 0) =>
                              ~ \/ score[b] > score[a]
                                \/ score[b] = score[a] /\ before[b] < before[a]

\* three destinations of three different scores got three different stays
\* that sum to total_days, the one of highest score a leftover day on top of
\* its share and the one of lowest score none
C27_Witness ==
    /\ pc = "done"
    /\ request.call = "distribute_days"
    /\ LET stops == Interior(request.route)
           score(c) == interest_score(countries_data, c, request.interests)
       IN  /\ Len(stops) = 3
           /\ \E a, b, c \in Range(stops) :
                 /\ score(a) > score(b) /\ score(b) > score(c) /\ score(c) > 0
                 /\ days_distribution[a] > days_distribution[b]
                 /\ days_distribution[b] > days_distribution[c]
                 /\ days_distribution[a] + days_distribution[b] + days_distribution[c]
                        = request.total_days
                 /\ LET spare == request.total_days - 3 * MIN_DAYS_PER_COUNTRY
                        total == score(a) + score(b) + score(c)
                    IN  /\ days_distribution[a]
                              = MIN_DAYS_PER_COUNTRY + (spare * score(a)) \div total + 1
                        /\ days_distribution[c]
                              = MIN_DAYS_PER_COUNTRY + (spare * score(c)) \div total

\* the working set of the last iteration of enforce_budget: the list as it is
\* now, with the destination that iteration removed, if it removed one
IterationSet ==
    IF pc = "enforce" /\ removed # <<>>
    THEN Range(WorkingList) \cup {removed[Len(removed)]}
    ELSE Range(WorkingList)

\* C28: in every iteration of enforce_budget the allocation used for the cost
\* check gives exactly MIN_DAYS_PER_COUNTRY days to every destination of the
\* working set and to nothing else, the cost compared with the budget is the
\* sum of the minimum visit costs of the working set plus the return leg, and
\* the allocation returned with a non-empty list sums to MIN_DAYS_PER_COUNTRY
\* times the length of that list, whatever the requested trip length.
C28_EnforcerMinimumStayOnly ==
    (iterations >= 1 /\ pc \in {"enforce", "after_enforce", "done"}
                     /\ request.call \in {"enforce_budget", "generate_itinerary"}
                     /\ IterationSet # {}) =>
        LET min_cost == [c \in IterationSet |-> minimum_cost(countries_data, c)]
        IN  /\ pc # "done" \/ request.call = "enforce_budget" =>
                /\ Range(Interior(route)) = IterationSet
                /\ DOMAIN days_distribution = IterationSet
                /\ \A c \in IterationSet : days_distribution[c] = MIN_DAYS_PER_COUNTRY
                /\ total_cost = SumOver(IterationSet, min_cost)
                                   + Lookup(countries_data,
                                            route[Len(route) - 1]).avg_travel_cost
            /\ (enforce_ret.returned /\ enforce_ret.countries # <<>>) =>
                /\ DOMAIN enforce_ret.days = Range(enforce_ret.countries)
                /\ \A c \in Range(enforce_ret.countries) :
                       enforce_ret.days[c] = MIN_DAYS_PER_COUNTRY
                /\ SumOver(Range(enforce_ret.countries), enforce_ret.days)
                       = MIN_DAYS_PER_COUNTRY * Len(enforce_ret.countries)
                /\ total_cost <= request.budget

\* enforce_budget has returned two destinations of different interest scores
\* after removing a third
C28_Witness ==
    /\ request.call = "enforce_budget"
    /\ enforce_ret.returned
    /\ Len(enforce_ret.countries) = 2
    /\ Len(removed) = 1
    /\ interest_score(countries_data, enforce_ret.countries[1], request.interests)
          # interest_score(countries_data, enforce_ret.countries[2], request.interests)
    /\ enforce_ret.days[enforce_ret.countries[1]] = MIN_DAYS_PER_COUNTRY
    /\ enforce_ret.days[enforce_ret.countries[2]] = MIN_DAYS_PER_COUNTRY

\* s can be obtained from t by deleting elements, the rest keeping their order
RECURSIVE IsSubsequence(_, _)
IsSubsequence(s, t) ==
    IF s = <<>> THEN TRUE
    ELSE IF t = <<>> THEN FALSE
    ELSE IF Head(s) = Head(t) THEN IsSubsequence(Tail(s), Tail(t))
    ELSE IsSubsequence(s, Tail(t))

\* C29: the list enforce_budget returns is empty or is the input list with
\* some destinations deleted, the others in their input order and none twice;
\* the warnings begin with one "Removed ..." warning per removal, naming the
\* destinations removed and their minimum visit cost in the order of removal;
\* and when the list returned is not empty there is no other warning, so the
\* warnings are as many as the destinations dropped.
C29_EnforcerOnlyRemoves ==
    (enforce_ret.returned /\ request.call = "enforce_budget") =>
        LET out == enforce_ret.countries
            warns == enforce_ret.warnings
        IN  /\ IsSubsequence(out, request.countries)
            /\ Cardinality(Range(out)) = Len(out)
            /\ Len(warns) >= Len(removed)
            /\ \A k \in 1..Len(removed) :
                   /\ warns[k].kind = "removed"
                   /\ warns[k].country = removed[k]
                   /\ warns[k].country \in Range(request.countries)
                   /\ warns[k].country \notin Range(out)
                   /\ warns[k].amount = minimum_cost(countries_data, removed[k])
                   /\ \A j \in 1..(k - 1) : warns[j].country # warns[k].country
            /\ out # <<>> =>
                   /\ Len(warns) = Len(request.countries) - Len(out)
                   /\ Range(out) \cup { warns[k].country : k \in 1..Len(warns) }
                         = Range(request.countries)

\* enforce_budget has dropped the second of three destinations and returned
\* the first and the third, in that order, with one warning
C29_Witness ==
    /\ enforce_ret.returned
    /\ request.call = "enforce_budget"
    /\ Len(request.countries) = 3
    /\ enforce_ret.countries = <<request.countries[1], request.countries[3]>>
    /\ Len(enforce_ret.warnings) = 1
    /\ enforce_ret.warnings[1].country = request.countries[2]

\* C30: what _knapsack_select returns fits the discretized capacity: the
\* whole tens of the minimum costs of the destinations returned sum to at most
\* the whole tens of the budget it was given (the working budget), and their
\* number is the item count recorded in the last cell dp[n][W] of the table
\* and at most max_items.
C30_KnapsackDiscretizedCapacity ==
    KnapsackPathDone =>
        LET candidates == Candidates(countries_data, request.interests,
                                     request.home_country)
            W == working_budget10(countries_data, request.budget)
                     \div (granularity * 10)
            cost_units == [c \in Range(selected) |->
                             minimum_cost(countries_data, c) \div granularity]
        IN  /\ SumOver(Range(selected), cost_units) <= W
            /\ Len(selected) <= request.num_countries
            /\ W > 0 =>
                  \A table \in { KnapsackTable(candidates, W, request.num_countries) } :
                      Len(selected) = Cell(table[Len(candidates) + 1], W).count

\* the knapsack path returned destinations that fill the discretized capacity
\* exactly, one of them costing whole tens, and left a candidate out although
\* max_items allowed one more
C30_Witness ==
    /\ KnapsackPathDone
    /\ Len(selected) >= 2
    /\ Len(selected) < request.num_countries
    /\ Len(selected)
          < Len(Candidates(countries_data, request.interests, request.home_country))
    /\ \E c \in Range(selected) : minimum_cost(countries_data, c) >= granularity
    /\ SumOver(Range(selected),
               [c \in Range(selected) |->
                   minimum_cost(countries_data, c) \div granularity]) * granularity * 10
          > working_budget10(countries_data, request.budget) - granularity * 10

====
